---- MODULE Spec2Model ----
(***************************************************************************)
(* The session state machine of the command-line chat client: the          *)
(* configuration (ModeConfiguration), the conversation history, the usage  *)
(* statistics, the files written by /save and read by /load, and the       *)
(* interaction loop of ChatBot.run that dispatches operator input.         *)
(*                                                                         *)
(* Conventions of the model                                                *)
(*  - A Python str is the record [txt |-> t, len |-> n]: the first n       *)
(*    characters of the text named t.  Slicing keeps the name and cuts the *)
(*    length, so value[:1000] is computed as the code computes it.         *)
(*  - Python None is the record [none |-> TRUE].                           *)
(*  - A float is counted in tenths: 7 is 0.7, 20 is 2.0.                   *)
(*  - A dict is a record; a key is present iff it is in DOMAIN.            *)
(***************************************************************************)
EXTENDS Integers, Sequences, FiniteSets, TLC

VARIABLES
    settings,              \* self.settings: the active ModeConfiguration
    conversation_history,  \* self.conversation_history: sequence of messages
    stats,                 \* self.stats
    files,                 \* the file system: file name -> content
    pc,                    \* where ChatBot.run is: "input", "generating", "exited"
    token,                 \* user_input_tokens[0] of the line read last, <<>> when there was none
    exit_code,             \* process exit code once pc = "exited"
    last,                  \* history variable: the operation that ended last
    pre,                   \* history variable: the state when the exchange began
    saved,                 \* history variable: per file, the state at its last successful /save
    exchanges,             \* history variable: number of successful exchanges
    steps                  \* history variable: number of lines read from the operator

vars == <<settings, conversation_history, stats, files, pc, token, exit_code,
          last, pre, saved, exchanges, steps>>

----------------------------------------------------------------------------
(* Bounds of the model *)

\* longest run explored, in lines read from the operator
MaxSteps == 4

----------------------------------------------------------------------------
(* Values *)

None == [none |-> TRUE]

Str(t, n) == [txt |-> t, len |-> n]

EmptyStr == Str("", 0)

\* len(value) of a str
StrLen(value) == value.len

\* value[:n] of a str, n > 0
Slice(value, n) == IF value.len > n THEN Str(value.txt, n) ELSE value

\* truth value of a str or None
Truthy(value) == value # None /\ value.len > 0

\* Python's  value or ""
OrEmpty(value) == IF Truthy(value) THEN value ELSE EmptyStr

Message(role, content) == [role |-> role, content |-> content]

\* history[1:]
Rest(history) == SubSeq(history, 2, Len(history))

\* the default of OPENAI_SYSTEM_PROMPT, 47 characters
DefaultPrompt == Str("default", 47)

\* utils.load_models_from_json, the built-in list
available_models == {"gpt-4", "gpt-4.1", "gpt-4o"}

\* the system prompt limit of adjust_settings
PromptLimit == 1000

\* the upper end of the range that help_text gives for /tokens
HelpMaxTokens == 4096

\* datetime.now() at construction; the clock is not otherwise observed
SessionStart == 0

----------------------------------------------------------------------------
(* ModeConfiguration *)

ModeConfiguration(model, max_tokens, temperature, system_prompt) ==
    [model |-> model, max_tokens |-> max_tokens,
     temperature |-> temperature, system_prompt |-> system_prompt]

\* the mutation of to_dict that leaves the system prompt out
to_dict_no_prompt(self) ==
    [model |-> self.model, max_tokens |-> self.max_tokens,
     temperature |-> self.temperature]

to_dict(self) ==
    [model |-> self.model, max_tokens |-> self.max_tokens,
     temperature |-> self.temperature, system_prompt |-> self.system_prompt]

\* from_dict raises KeyError unless the three subscripted keys are present
from_dict_raises(data) ==
    ~ ({"model", "max_tokens", "temperature"} \subseteq DOMAIN data)

from_dict(data) ==
    ModeConfiguration(data["model"], data["max_tokens"], data["temperature"],
                      IF "system_prompt" \in DOMAIN data
                      THEN data["system_prompt"] ELSE None)

\* ChatBot.load_model_configuration with no OPENAI_* variable but the key set
load_model_configuration == ModeConfiguration("gpt-4o", 1024, 7, DefaultPrompt)

----------------------------------------------------------------------------
(* The file system *)

MissingFile == [kind |-> "missing"]

\* a file whose text is not well-formed JSON (also a half-written file)
GarbageFile == [kind |-> "garbage"]

JsonFile(data) == [kind |-> "json", data |-> data]

\* JSON null
JsonNull == [null |-> TRUE]

\* a JSON array
JsonArray(items) == [array |-> items]

\* whether list.extend accepts the loaded value (it raises TypeError on None)
IsArray(value) == "array" \in DOMAIN value

\* json.dump of a settings dict: None is written as null
json_dump(d) ==
    [k \in DOMAIN d |->
        IF k = "system_prompt" /\ d[k] = None THEN JsonNull ELSE d[k]]

\* json.load of a settings object: null is read as None
json_load(d) ==
    [k \in DOMAIN d |->
        IF k = "system_prompt" /\ d[k] = JsonNull THEN None ELSE d[k]]

UserMsg == Message("user", Str("hello", 5))

AssistantMsg == Message("assistant", Str("reply", 5))

\* files written by another hand, never named in a /save of the model; only
\* foreign carries settings that break the validation rules
ExternalFiles ==
    [ nosettings |-> JsonFile([conversation |-> JsonArray(<<UserMsg>>)]),
      partial    |-> JsonFile([settings |-> [model |-> "gpt-4", max_tokens |-> 64],
                              conversation |-> JsonArray(<<UserMsg>>)]),
      noconv     |-> JsonFile([settings |-> [model |-> "gpt-4.1", max_tokens |-> 64,
                                             temperature |-> 10,
                                             system_prompt |-> Str("file", 4)]]),
      nullconv   |-> JsonFile([settings |-> [model |-> "gpt-4.1", max_tokens |-> 64,
                                             temperature |-> 10,
                                             system_prompt |-> Str("file", 4)],
                              conversation |-> JsonNull]),
      foreign    |-> JsonFile([settings |-> [model |-> "llama", max_tokens |-> -5,
                                             temperature |-> 99,
                                             system_prompt |-> Str("file", 4)],
                              conversation |-> JsonArray(<<UserMsg, AssistantMsg>>)]),
      noprompt   |-> JsonFile([settings |-> [model |-> "gpt-4.1", max_tokens |-> 64,
                                             temperature |-> 10],
                              conversation |-> JsonArray(<<UserMsg, AssistantMsg>>)]),
      nullprompt |-> JsonFile([settings |-> [model |-> "gpt-4.1", max_tokens |-> 64,
                                             temperature |-> 10,
                                             system_prompt |-> JsonNull],
                              conversation |-> JsonArray(<<>>)]),
      garbage    |-> GarbageFile,
      absent     |-> MissingFile ]

\* conversation_<YYYYMMDD>_<HHMMSS>.json of save_conversation
DefaultFile == "conversation_ts"

SaveNames == {DefaultFile}

FileNames == DOMAIN ExternalFiles \cup SaveNames

\* open(filename): the files of the model and those written by another hand
open(filename) ==
    IF filename \in DOMAIN files THEN files[filename] ELSE ExternalFiles[filename]

NoSnapshot == [none |-> TRUE]

----------------------------------------------------------------------------
(* Operator input *)

IntArg(n) == [kind |-> "int", val |-> n]

\* a decimal literal, given in tenths: DecArg(5) is "0.5"
DecArg(n) == [kind |-> "dec", val |-> n]

WordArg == [kind |-> "word", val |-> 0]

\* int(value) raises ValueError
int_raises(value) == value.kind # "int"

int(value) == value.val

\* float(value) raises ValueError
float_raises(value) == value.kind \notin {"int", "dec"}

\* float(value), in tenths
float(value) == IF value.kind = "int" THEN 10 * value.val ELSE value.val

ModelArgs == {"gpt-4", "llama"}

\* "0", "2", "2.1", "-0.1" and a word
TempArgs == {IntArg(0), IntArg(2), DecArg(21), DecArg(-1), WordArg}

\* "500", "5000", "0", "-3", "1.5" and a word
TokenArgs == {IntArg(500), IntArg(5000), IntArg(0), IntArg(-3), DecArg(15), WordArg}

PromptArgs == {Str("long", 1500), Str("short", 5)}

UserInputs == {Str("hello", 5)}

ReplyTexts == {Str("reply", 5)}

\* response.usage: absent, or carrying total_tokens
Usages == {None, [total_tokens |-> 3]}

\* what the operator types at a confirmation of /load ("^C" is an interrupt,
\* "^D" the end of the input stream)
Answers == {"yes", "", "^C", "^D"}

----------------------------------------------------------------------------
(* ChatBot.__init__ *)

Init ==
    /\ settings = load_model_configuration
    /\ conversation_history =
           <<Message("developer", OrEmpty(load_model_configuration.system_prompt))>>
    /\ stats = [total_messages |-> 0, total_tokens_used |-> 0,
                session_start |-> SessionStart]
    /\ files = [f \in SaveNames |-> MissingFile]
    /\ pc = "input"
    /\ token = <<>>
    /\ exit_code = None
    /\ last = [op |-> "init", res |-> "ok", arg |-> None]
    /\ pre = NoSnapshot
    /\ saved = [f \in SaveNames |-> NoSnapshot]
    /\ exchanges = 0
    /\ steps = 0

----------------------------------------------------------------------------
(* ChatBot.adjust_settings: the configuration and the history it leaves,     *)
(* with res telling which branch printed                                     *)

Outcome(cfg, history, res) ==
    [settings |-> cfg, conversation_history |-> history, res |-> res]

\* the mutation of adjust_model that skips the allow-list
adjust_model_unlisted(value) ==
    Outcome([settings EXCEPT !.model = value], conversation_history,
            IF value = settings.model THEN "same" ELSE "ok")

adjust_model(value) ==
    IF value \in available_models
    THEN Outcome([settings EXCEPT !.model = value], conversation_history,
                 IF value = settings.model THEN "same" ELSE "ok")
    ELSE Outcome(settings, conversation_history, "rejected")

\* the mutation of adjust_max_tokens that enforces the range of help_text
adjust_max_tokens_capped(value) ==
    IF int_raises(value)
    THEN Outcome(settings, conversation_history, "invalid")
    ELSE IF int(value) > 0 /\ int(value) <= HelpMaxTokens
         THEN Outcome([settings EXCEPT !.max_tokens = int(value)],
                      conversation_history, "ok")
         ELSE Outcome(settings, conversation_history, "rejected")

adjust_max_tokens(value) ==
    IF int_raises(value)
    THEN Outcome(settings, conversation_history, "invalid")
    ELSE IF int(value) > 0
         THEN Outcome([settings EXCEPT !.max_tokens = int(value)],
                      conversation_history, "ok")
         ELSE Outcome(settings, conversation_history, "rejected")

\* the mutation of adjust_temperature that clamps a value out of range
adjust_temperature_clamps(value) ==
    IF float_raises(value)
    THEN Outcome(settings, conversation_history, "invalid")
    ELSE Outcome([settings EXCEPT !.temperature =
                      IF float(value) < 0 THEN 0
                      ELSE IF float(value) > 2 * 10 THEN 2 * 10 ELSE float(value)],
                 conversation_history, "ok")

\* the mutation of adjust_temperature whose upper bound is exclusive
adjust_temperature_below_two(value) ==
    IF float_raises(value)
    THEN Outcome(settings, conversation_history, "invalid")
    ELSE IF 0 <= float(value) /\ float(value) < 2 * 10
         THEN Outcome([settings EXCEPT !.temperature = float(value)],
                      conversation_history, "ok")
         ELSE Outcome(settings, conversation_history, "rejected")

adjust_temperature(value) ==
    IF float_raises(value)
    THEN Outcome(settings, conversation_history, "invalid")
    ELSE IF 0 <= float(value) /\ float(value) <= 2 * 10
         THEN Outcome([settings EXCEPT !.temperature = float(value)],
                      conversation_history, "ok")
         ELSE Outcome(settings, conversation_history, "rejected")

\* the mutation of adjust_system_prompt that refuses a text over the limit
adjust_system_prompt_rejects_long(value) ==
    IF Truthy(value) /\ StrLen(value) <= PromptLimit
    THEN Outcome([settings EXCEPT !.system_prompt = value],
                 [conversation_history EXCEPT ![1].content = value], "ok")
    ELSE Outcome(settings, conversation_history, "rejected")

\* the mutation of adjust_system_prompt that leaves the history alone
adjust_system_prompt_only(value) ==
    IF Truthy(value)
    THEN LET v == IF StrLen(value) > PromptLimit
                  THEN Slice(value, PromptLimit) ELSE value
         IN  Outcome([settings EXCEPT !.system_prompt = v],
                     conversation_history, "ok")
    ELSE Outcome(settings, conversation_history, "rejected")

adjust_system_prompt(value) ==
    IF Truthy(value)
    THEN LET v == IF StrLen(value) > PromptLimit
                  THEN Slice(value, PromptLimit) ELSE value
         IN  Outcome([settings EXCEPT !.system_prompt = v],
                     [conversation_history EXCEPT ![1].content = v], "ok")
    ELSE Outcome(settings, conversation_history, "rejected")

adjust_settings(setting, value) ==
    CASE setting = "model"         -> adjust_model(value)
      [] setting = "max_tokens"    -> adjust_max_tokens(value)
      [] setting = "temperature"   -> adjust_temperature(value)
      [] setting = "system_prompt" -> adjust_system_prompt(value)
      [] OTHER                     -> Outcome(settings, conversation_history, "unknown")

----------------------------------------------------------------------------
(* ChatBot.clear_history *)

\* the mutation of clear_history that keeps the entry at index 0
clear_history_keeps_head == <<conversation_history[1]>>

clear_history ==
    <<Message("developer", OrEmpty(settings.system_prompt))>>

----------------------------------------------------------------------------
(* ChatBot.save_conversation *)

\* the mutation of conversation_data that stores the whole history
conversation_data_whole ==
    [timestamp    |-> SessionStart,
     settings     |-> json_dump(to_dict(settings)),
     conversation |-> JsonArray(conversation_history),
     stats        |-> [total_messages |-> stats.total_messages,
                       total_tokens_used |-> stats.total_tokens_used,
                       session_start |-> stats.session_start]]

\* the conversation_data written by json.dump
conversation_data ==
    [timestamp    |-> SessionStart,
     settings     |-> json_dump(to_dict(settings)),
     conversation |-> JsonArray(Rest(conversation_history)),
     stats        |-> [total_messages |-> stats.total_messages,
                       total_tokens_used |-> stats.total_tokens_used,
                       session_start |-> stats.session_start]]

\* how the write ends: done, open() failed, or json.dump failed half-way
WriteResults == {"ok", "open_failed", "dump_failed"}

save_conversation(filename, result) ==
    CASE result = "ok"          -> JsonFile(conversation_data)
      [] result = "dump_failed" -> GarbageFile
      [] OTHER                  -> files[filename]

----------------------------------------------------------------------------
(* ChatBot.load_conversation: the configuration and the history it leaves,   *)
(* with res telling how it ended                                             *)

\* how load_conversation ends when an exception is raised before the
\* settings question
LoadErrors ==
    {"no_file", "not_json", "no_settings", "bad_settings", "no_conversation",
     "bad_conversation"}

\* the mutation of wants_update that takes every answer for a yes
wants_update_always(confirm) == TRUE

\* confirm == 'yes' at the settings question
wants_update(confirm) == confirm = "yes"

\* overwrite is the answer at the overwrite question, confirm the answer at
\* the settings question
load_conversation(filename, overwrite, confirm) ==
    LET file == open(filename) IN
    IF file.kind = "missing"
    THEN Outcome(settings, conversation_history, "no_file")
    ELSE IF file.kind = "garbage"
    THEN Outcome(settings, conversation_history, "not_json")
    ELSE LET data == file.data IN
    IF "settings" \notin DOMAIN data
    THEN Outcome(settings, conversation_history, "no_settings")
    ELSE IF from_dict_raises(data["settings"])
    THEN Outcome(settings, conversation_history, "bad_settings")
    ELSE LET setting == from_dict(json_load(data["settings"]))
             rebuilt == <<Message("system", OrEmpty(setting.system_prompt))>>
         IN
    \* the overwrite question is put when the history just rebuilt has more
    \* than one entry
    IF Len(rebuilt) > 1 /\ overwrite # "yes"
    THEN Outcome(settings, rebuilt, "cancelled")
    ELSE IF "conversation" \notin DOMAIN data
    THEN Outcome(settings, rebuilt, "no_conversation")
    ELSE IF ~ IsArray(data["conversation"])
    THEN Outcome(settings, rebuilt, "bad_conversation")
    ELSE LET loaded == rebuilt \o data["conversation"].array IN
    CASE confirm = "^C"        -> Outcome(settings, loaded, "interrupted")
      [] confirm = "^D"        -> Outcome(settings, loaded, "eof")
      [] wants_update(confirm) -> Outcome(setting, loaded, "merged")
      [] OTHER                 -> Outcome(settings, loaded, "kept")

\* the mutation of load_stats that restores the stats block of the file
load_stats_from_file(filename) ==
    LET file == open(filename) IN
    IF file.kind = "json" /\ "stats" \in DOMAIN file.data
    THEN [stats EXCEPT !.total_messages = file.data["stats"].total_messages,
                       !.total_tokens_used = file.data["stats"].total_tokens_used]
    ELSE stats

\* the stats load_conversation leaves: it reads neither data["stats"] nor
\* data["timestamp"]
load_stats(filename) == stats

----------------------------------------------------------------------------
(* ChatBot.handle_command: the first token of the line, a sequence of       *)
(* characters, selects the branch                                           *)

UpperCase ==
    <<"A", "B", "C", "D", "E", "F", "G", "H", "I", "J", "K", "L", "M",
      "N", "O", "P", "Q", "R", "S", "T", "U", "V", "W", "X", "Y", "Z">>

LowerCase ==
    <<"a", "b", "c", "d", "e", "f", "g", "h", "i", "j", "k", "l", "m",
      "n", "o", "p", "q", "r", "s", "t", "u", "v", "w", "x", "y", "z">>

\* str.lower of one character
lower_char(c) ==
    IF \E i \in DOMAIN UpperCase : UpperCase[i] = c
    THEN LowerCase[CHOOSE i \in DOMAIN UpperCase : UpperCase[i] = c]
    ELSE c

\* the mutation of lower that keeps the case
lower_keeps_case(word) == word

\* str.lower
lower(word) == [i \in DOMAIN word |-> lower_char(word[i])]

\* str.startswith of a prefix of one character
startswith(word, prefix) == Len(word) >= 1 /\ word[1] = prefix

\* the branch of handle_command that the first token selects: "False" when
\* it returns False, else the command literal matched, "/unknown" for the
\* final else
handle_command(word) ==
    LET command == lower(word) IN
    IF ~ startswith(command, "/") THEN "False"
    ELSE CASE command = <<"/", "h", "e", "l", "p">>                -> "/help"
           [] command = <<"/", "c", "l", "e", "a", "r">>           -> "/clear"
           [] command = <<"/", "s", "t", "a", "t", "s">>           -> "/stats"
           [] command = <<"/", "s", "e", "t", "t", "i", "n", "g", "s">> -> "/settings"
           [] command = <<"/", "m", "o", "d", "e", "l", "s">>      -> "/models"
           [] command = <<"/", "m", "o", "d", "e", "l">>           -> "/model"
           [] command = <<"/", "t", "e", "m", "p">>                -> "/temp"
           [] command = <<"/", "t", "o", "k", "e", "n", "s">>      -> "/tokens"
           [] command = <<"/", "p", "r", "o", "m", "p", "t">>      -> "/prompt"
           [] command = <<"/", "s", "a", "v", "e">>                -> "/save"
           [] command = <<"/", "l", "o", "a", "d">>                -> "/load"
           [] command = <<"/", "q", "u", "i", "t">>                -> "/quit"
           [] command = <<"/", "e", "x", "i", "t">>                -> "/exit"
           [] OTHER                                                -> "/unknown"

\* the first tokens the operator types: every command as the help spells
\* it, /CLEAR and /Quit, a command that does not exist, and a word
Tokens ==
    { <<"/", "h", "e", "l", "p">>,
      <<"/", "c", "l", "e", "a", "r">>,
      <<"/", "C", "L", "E", "A", "R">>,
      <<"/", "s", "t", "a", "t", "s">>,
      <<"/", "s", "e", "t", "t", "i", "n", "g", "s">>,
      <<"/", "m", "o", "d", "e", "l", "s">>,
      <<"/", "m", "o", "d", "e", "l">>,
      <<"/", "t", "e", "m", "p">>,
      <<"/", "t", "o", "k", "e", "n", "s">>,
      <<"/", "p", "r", "o", "m", "p", "t">>,
      <<"/", "s", "a", "v", "e">>,
      <<"/", "l", "o", "a", "d">>,
      <<"/", "q", "u", "i", "t">>,
      <<"/", "Q", "u", "i", "t">>,
      <<"/", "e", "x", "i", "t">>,
      <<"/", "b", "o", "g", "u", "s">>,
      <<"h", "e", "l", "l", "o">> }

\* handle_command over the tokens typed, as a table
BranchOf == [word \in Tokens |-> handle_command(word)]

----------------------------------------------------------------------------
(* ChatBot.run and ChatBot.handle_command: one action per kind of input     *)

Ended(op, res, arg) == last' = [op |-> op, res |-> res, arg |-> arg]

\* whether a clause "except Exception" takes exc: SystemExit and
\* KeyboardInterrupt derive from BaseException alone
except_Exception(exc) == exc \notin {"SystemExit", "KeyboardInterrupt"}

\* the mutation of run_except that reports KeyboardInterrupt and goes on
run_except_no_break(exc) ==
    IF exc = "SystemExit" THEN "raise" ELSE "continue"

\* the mutation of run_except whose second clause takes whatever is raised
run_except_bare(exc) ==
    IF exc = "KeyboardInterrupt" THEN "break" ELSE "continue"

\* what the try of run() does with exc raised in the loop body: it breaks
\* on KeyboardInterrupt, reports an Exception and goes on, and lets
\* anything else through
run_except(exc) ==
    CASE exc = "KeyboardInterrupt" -> "break"
      [] except_Exception(exc)     -> "continue"
      [] OTHER                     -> "raise"

\* the loop once exc is raised in its body: back at input(), or the end of
\* the process with exit code 0 (after break, run() and main() return; the
\* SystemExit of sys.exit(0) passes main()'s except Exception)
Raised(exc) ==
    IF run_except(exc) = "continue"
    THEN pc' = "input" /\ exit_code' = exit_code
    ELSE pc' = "exited" /\ exit_code' = 0

\* the loop goes back to input() with the session as it was
Continue ==
    /\ pc' = "input"
    /\ UNCHANGED <<exit_code, exchanges>>
    /\ pre' = NoSnapshot

\* input() returns a line (or raises) while the run is within the bound
Read ==
    /\ pc = "input"
    /\ steps < MaxSteps
    /\ steps' = steps + 1

\* the line read has a first token that handle_command takes to branch
Dispatch(branch) ==
    \E word \in Tokens :
       /\ BranchOf[word] = branch
       /\ token' = word

\* no line, or none with a token in it
NoToken == token' = <<>>

\* an input line that is empty once stripped
EmptyInput ==
    /\ Read
    /\ NoToken
    /\ Ended("empty", "ok", None)
    /\ Continue
    /\ UNCHANGED <<settings, conversation_history, stats, files, saved>>

\* input() raises EOFError, which the loop reports and survives
InputEOF ==
    /\ Read
    /\ NoToken
    /\ Ended("input", "eof", None)
    /\ Raised("EOFError")
    /\ pre' = NoSnapshot
    /\ UNCHANGED exchanges
    /\ UNCHANGED <<settings, conversation_history, stats, files, saved>>

\* Ctrl+C while input() blocks
InputInterrupt ==
    /\ Read
    /\ NoToken
    /\ Raised("KeyboardInterrupt")
    /\ Ended("input", "interrupted", None)
    /\ UNCHANGED <<settings, conversation_history, stats, files, pre, saved,
                   exchanges>>

\* /help, /stats, /settings, /models and an unrecognized /word only print
CmdShow ==
    /\ Read
    /\ \E command \in {"/help", "/stats", "/settings", "/models", "/unknown"} :
          /\ Dispatch(command)
          /\ Ended(command, "ok", None)
    /\ Continue
    /\ UNCHANGED <<settings, conversation_history, stats, files, saved>>

CmdClear ==
    /\ Read
    /\ Dispatch("/clear")
    /\ conversation_history' = clear_history
    /\ Ended("/clear", "ok", Len(conversation_history))
    /\ Continue
    /\ UNCHANGED <<settings, stats, files, saved>>

\* /model, /temp, /tokens, /prompt with an argument
Adjust(command, setting, value) ==
    LET r == adjust_settings(setting, value) IN
    /\ settings' = r.settings
    /\ conversation_history' = r.conversation_history
    /\ Ended(command, r.res, value)

\* ... and without one
Missing(command) ==
    /\ Ended(command, "missing_arg", None)
    /\ UNCHANGED <<settings, conversation_history>>

CmdModel ==
    /\ Read
    /\ Dispatch("/model")
    /\ \/ \E value \in ModelArgs : Adjust("/model", "model", value)
       \/ Missing("/model")
    /\ Continue
    /\ UNCHANGED <<stats, files, saved>>

CmdTemp ==
    /\ Read
    /\ Dispatch("/temp")
    /\ \/ \E value \in TempArgs : Adjust("/temp", "temperature", value)
       \/ Missing("/temp")
    /\ Continue
    /\ UNCHANGED <<stats, files, saved>>

CmdTokens ==
    /\ Read
    /\ Dispatch("/tokens")
    /\ \/ \E value \in TokenArgs : Adjust("/tokens", "max_tokens", value)
       \/ Missing("/tokens")
    /\ Continue
    /\ UNCHANGED <<stats, files, saved>>

CmdPrompt ==
    /\ Read
    /\ Dispatch("/prompt")
    /\ \/ \E value \in PromptArgs : Adjust("/prompt", "system_prompt", value)
       \/ Missing("/prompt")
    /\ Continue
    /\ UNCHANGED <<stats, files, saved>>

\* what follows /save on the line: nothing, or a file name
SaveArgs == {""} \cup SaveNames

\* the file save_conversation writes: the one named, else the default
save_filename(args) == IF args = "" THEN DefaultFile ELSE args

\* /save with or without a file name
CmdSave ==
    /\ Read
    /\ Dispatch("/save")
    /\ \E args \in SaveArgs, result \in WriteResults :
          LET filename == save_filename(args) IN
          /\ files' = [files EXCEPT ![filename] = save_conversation(filename, result)]
          /\ saved' = [saved EXCEPT ![filename] =
                          CASE result = "ok" ->
                                  [settings |-> settings,
                                   conversation |-> Rest(conversation_history)]
                            [] result = "dump_failed" -> NoSnapshot
                            [] OTHER -> saved[filename]]
          /\ Ended("/save", result, [filename |-> filename, args |-> args])
    /\ Continue
    /\ UNCHANGED <<settings, conversation_history, stats>>

\* what the operator may type at the overwrite question of /load: nothing
\* but the Enter key when the question is not put (declining would cancel
\* the load if it were)
OverwriteAnswers(filename) ==
    IF load_conversation(filename, "", "yes").res = "cancelled"
    THEN {"yes", ""} ELSE {""}

\* what the operator may type at the settings question of /load: nothing
\* but the Enter key when the load ends before the question
ConfirmAnswers(filename, overwrite) ==
    IF load_conversation(filename, overwrite, "yes").res = "merged"
    THEN Answers ELSE {""}

\* /load <filename>; the operator answers the settings question with confirm
CmdLoad ==
    /\ Read
    /\ Dispatch("/load")
    /\ \E filename \in FileNames :
       \E overwrite \in OverwriteAnswers(filename) :
       \E confirm \in ConfirmAnswers(filename, overwrite) :
          LET r == load_conversation(filename, overwrite, confirm) IN
          /\ settings' = r.settings
          /\ conversation_history' = r.conversation_history
          \* the settings question is put only once the conversation is in
          /\ Ended("/load", r.res,
                   [filename |-> filename,
                    confirm |-> IF r.res \in LoadErrors THEN "not asked"
                                ELSE confirm])
          /\ stats' = load_stats(filename)
          /\ IF r.res = "interrupted"
             THEN Raised("KeyboardInterrupt")
             ELSE pc' = "input" /\ exit_code' = exit_code
    /\ pre' = NoSnapshot
    /\ UNCHANGED <<files, saved, exchanges>>

CmdLoadNoArg ==
    /\ Read
    /\ Dispatch("/load")
    /\ Missing("/load")
    /\ Continue
    /\ UNCHANGED <<stats, files, saved>>

\* /quit and /exit: sys.exit(0)
CmdQuit ==
    /\ Read
    /\ Raised("SystemExit")
    /\ \E command \in {"/quit", "/exit"} :
          /\ Dispatch(command)
          /\ Ended(command, "ok", None)
    /\ UNCHANGED <<settings, conversation_history, stats, files, pre, saved,
                   exchanges>>

----------------------------------------------------------------------------
(* ChatBot.chat: the exchange, cut at the blocking generation call *)

\* the mutation of request that sends the newest message alone
request_newest_only ==
    [model             |-> settings.model,
     input             |-> <<conversation_history[Len(conversation_history)]>>,
     temperature       |-> settings.temperature,
     max_output_tokens |-> settings.max_tokens]

\* the arguments of responses.create, read when the call is made
request ==
    [model             |-> settings.model,
     input             |-> conversation_history,
     temperature       |-> settings.temperature,
     max_output_tokens |-> settings.max_tokens]

\* the mutation of ChatBegin that makes the call without having appended
\* the user message
ChatBeginKeepsHistory ==
    /\ Read
    /\ Dispatch("False")
    /\ \E message \in UserInputs :
          /\ conversation_history' = conversation_history
          /\ Ended("chat", "calling", message)
          /\ pre' = [settings |-> settings,
                     conversation_history |-> conversation_history,
                     stats |-> stats, message |-> message]
    /\ pc' = "generating"
    /\ UNCHANGED <<settings, stats, files, exit_code, saved, exchanges>>

\* chat() up to responses.create
ChatBegin ==
    /\ Read
    /\ Dispatch("False")
    /\ \E message \in UserInputs :
          /\ conversation_history' =
                Append(conversation_history, Message("user", message))
          /\ Ended("chat", "calling", message)
          /\ pre' = [settings |-> settings,
                     conversation_history |-> conversation_history,
                     stats |-> stats, message |-> message]
    /\ pc' = "generating"
    /\ UNCHANGED <<settings, stats, files, exit_code, saved, exchanges>>

\* the mutation of count_exchange that forgets the reported usage
count_exchange_no_usage(usage) == [stats EXCEPT !.total_messages = @ + 1]

\* the stats update of chat() after a response
count_exchange(usage) ==
    [stats EXCEPT !.total_messages = @ + 1,
                  !.total_tokens_used =
                      IF usage # None THEN @ + usage.total_tokens ELSE @]

\* responses.create returns
GenSuccess ==
    /\ pc = "generating"
    /\ \E text \in ReplyTexts, usage \in Usages :
          /\ conversation_history' =
                Append(conversation_history, Message("assistant", text))
          /\ stats' = count_exchange(usage)
          /\ Ended("chat", "ok", [text |-> text, usage |-> usage])
    /\ exchanges' = exchanges + 1
    /\ pc' = "input"
    /\ UNCHANGED <<steps, token, settings, files, exit_code, pre, saved>>

\* the mutation of count_failure that counts the failed turn
count_failure_counted == [stats EXCEPT !.total_messages = @ + 1]

\* what chat() does to the stats when responses.create raises
count_failure == stats

\* the mutation of GenFail that takes the user message back
GenFailRollsBack ==
    /\ pc = "generating"
    /\ stats' = count_failure
    /\ conversation_history' =
          SubSeq(conversation_history, 1, Len(conversation_history) - 1)
    /\ Ended("chat", "error", None)
    /\ pc' = "input"
    /\ UNCHANGED <<steps, token, settings, files, exit_code, pre, saved, exchanges>>

\* responses.create raises an Exception: chat() returns the error string
GenFail ==
    /\ pc = "generating"
    /\ stats' = count_failure
    /\ Ended("chat", "error", None)
    /\ pc' = "input"
    /\ UNCHANGED <<steps, token, settings, conversation_history, files, exit_code,
                   pre, saved, exchanges>>

\* Ctrl+C during the call: KeyboardInterrupt passes chat() and ends the loop
GenInterrupt ==
    /\ pc = "generating"
    /\ Ended("chat", "interrupted", None)
    /\ Raised("KeyboardInterrupt")
    /\ UNCHANGED <<steps, token, settings, conversation_history, stats, files, pre,
                   saved, exchanges>>

----------------------------------------------------------------------------

Next ==
    \/ EmptyInput
    \/ InputEOF
    \/ InputInterrupt
    \/ CmdShow
    \/ CmdClear
    \/ CmdModel
    \/ CmdTemp
    \/ CmdTokens
    \/ CmdPrompt
    \/ CmdSave
    \/ CmdLoad
    \/ CmdLoadNoArg
    \/ CmdQuit
    \/ ChatBegin
    \/ GenSuccess
    \/ GenFail
    \/ GenInterrupt

Spec == Init /\ [][Next]_vars

----------------------------------------------------------------------------
(* Properties *)

\* the operation that ended last
Did(op, res) == last.op = op /\ last.res = res

\* the ways /load fails that the persistence rules name: no file, malformed
\* text, no settings, incomplete settings, no conversation, conversation not
\* a list
LoadFailures == LoadErrors

SaveFailures == {"open_failed", "dump_failed"}

\* the operation l is a /load of a named file whose settings question got
\* the answer confirm
LoadAnswered(l, confirm) ==
    /\ l.op = "/load"
    /\ l.res # "missing_arg"
    /\ l.arg.confirm = confirm

\* the four validation rules of the configuration
ConfigValid(cfg) ==
    /\ cfg.model \in available_models
    /\ cfg.max_tokens > 0
    /\ 0 <= cfg.temperature /\ cfg.temperature <= 2 * 10
    /\ cfg.system_prompt = None \/ StrLen(cfg.system_prompt) <= PromptLimit

\* C1: in every reachable state the configuration is valid in all four
\* fields: model in the allow-list, max_tokens positive, temperature in
\* [0, 2], system prompt of at most 1000 characters.
C1_ConfigAlwaysValid == ConfigValid(settings)

\* C2: in every reachable state the history is non-empty and its first
\* entry has role developer.
C2_FirstIsDeveloper ==
    /\ Len(conversation_history) >= 1
    /\ conversation_history[1].role = "developer"

\* C3: a /load that fails (no file, malformed text, no settings, incomplete
\* settings, no conversation, conversation not a list) and a /save whose
\* write fails leave configuration, history and stats as they were, and the
\* loop goes on.
C3_FailedPersistenceKeepsState ==
    [][ ( \/ last'.op = "/load" /\ last'.res \in LoadFailures
          \/ last'.op = "/save" /\ last'.res \in SaveFailures )
        => /\ settings' = settings
           /\ conversation_history' = conversation_history
           /\ stats' = stats
           /\ pc' = "input" ]_vars

\* C4 as stated: after an exchange whose generation call failed,
\* total_messages is one more than before the exchange.
C4_FailedExchangeCounted ==
    Did("chat", "error") => stats.total_messages = pre.stats.total_messages + 1

\* C4 as amended: after an exchange whose generation call failed,
\* total_messages is what it was before the exchange; only a successful
\* exchange is counted.
C4_FailedExchangeNotCounted ==
    Did("chat", "error") => stats.total_messages = pre.stats.total_messages

C4_Witness ==
    /\ Did("chat", "error")
    /\ pre.stats.total_messages >= 1

\* C5: after an exchange whose generation call failed, the history is the
\* history before the exchange plus the user message as last entry, chat()
\* has returned (the loop is back at its input), and total_tokens_used and
\* the configuration are what they were.
C5_FailedExchangeKeepsUserMessage ==
    Did("chat", "error") =>
        /\ conversation_history =
              Append(pre.conversation_history, Message("user", pre.message))
        /\ pc = "input"
        /\ stats.total_tokens_used = pre.stats.total_tokens_used
        /\ settings = pre.settings

C5_Witness ==
    /\ Did("chat", "error")
    /\ Len(pre.conversation_history) >= 2
    /\ conversation_history[Len(conversation_history)].role = "user"

\* C6: a successful exchange appends the user message and then the assistant
\* message with the returned text, adds one to total_messages and the
\* reported usage (nothing when none is reported) to total_tokens_used; and
\* in every state total_messages is the number of successful exchanges.
C6_ExchangeCounted ==
    /\ stats.total_messages = exchanges
    /\ Did("chat", "ok") =>
          /\ conversation_history =
                pre.conversation_history \o
                   << Message("user", pre.message),
                      Message("assistant", last.arg.text) >>
          /\ stats.total_messages = pre.stats.total_messages + 1
          /\ stats.total_tokens_used =
                pre.stats.total_tokens_used +
                   (IF last.arg.usage = None THEN 0
                    ELSE last.arg.usage.total_tokens)

C6_Witness ==
    /\ Did("chat", "ok")
    /\ last.arg.usage # None
    /\ conversation_history[1].role = "system"
    /\ exchanges = 2

\* the system prompt a file carries, the empty string when null or absent
FilePrompt(filename) ==
    LET d == open(filename).data["settings"] IN
    IF "system_prompt" \in DOMAIN d /\ d["system_prompt"] # JsonNull
    THEN d["system_prompt"] ELSE EmptyStr

\* C7: a /load that reads its file and whose settings question is not
\* answered yes leaves the four configuration fields as they were, makes
\* history[1:] the conversation of the file and history[0].content the
\* system prompt of the file (empty when null or absent).
C7_DeclinedMergeKeepsConfig ==
    [][ ( /\ LoadAnswered(last', "")
          /\ last'.res \notin LoadFailures )
        => /\ settings' = settings
           /\ Rest(conversation_history') =
                 open(last'.arg.filename).data["conversation"].array
           /\ conversation_history'[1].content = FilePrompt(last'.arg.filename) ]_vars

C7_Witness ==
    /\ Did("/load", "kept")
    /\ Len(conversation_history) = 3
    /\ settings.system_prompt # conversation_history[1].content

\* C8: a /load, answered yes, of a file last written by a successful /save
\* succeeds and yields the configuration of the time of the save, field for
\* field, history[1:] as it was at the save, and the saved system prompt as
\* history[0].content, whatever ran in between.
C8_SaveLoadRoundTrip ==
    ( /\ LoadAnswered(last, "yes")
      /\ last.arg.filename \in SaveNames
      /\ saved[last.arg.filename] # NoSnapshot )
    => /\ last.res = "merged"
       /\ settings = saved[last.arg.filename].settings
       /\ Rest(conversation_history) = saved[last.arg.filename].conversation
       /\ conversation_history[1].content =
             OrEmpty(saved[last.arg.filename].settings.system_prompt)

C8_Witness ==
    /\ Did("/load", "merged")
    /\ last.arg.filename \in SaveNames
    /\ settings.system_prompt = Str("long", PromptLimit)
    /\ Len(conversation_history) = 3

\* C9: /clear leaves the history with the single entry developer: current
\* system prompt (the empty string when there is none), whatever the history
\* was, and leaves stats and configuration as they were.
C9_ClearResets ==
    [][ last'.op = "/clear"
        => /\ conversation_history' =
                 << Message("developer", OrEmpty(settings.system_prompt)) >>
           /\ stats' = stats
           /\ settings' = settings ]_vars

C9_Witness ==
    /\ Did("/clear", "ok")
    /\ last.arg > 1

\* C10 as stated: right after an accepted /prompt and after a /clear,
\* history[0].content equals settings.system_prompt.
C10_HeadEqualsPrompt ==
    (Did("/prompt", "ok") \/ Did("/clear", "ok"))
    => conversation_history[1].content = settings.system_prompt

\* C10 as amended: right after an accepted /prompt and after a /clear,
\* history[0].content equals settings.system_prompt, or the empty string
\* when the configuration has no system prompt (None).
C10_HeadReflectsPrompt ==
    (Did("/prompt", "ok") \/ Did("/clear", "ok"))
    => conversation_history[1].content = OrEmpty(settings.system_prompt)

C10_Witness ==
    /\ Did("/prompt", "ok")
    /\ conversation_history[1].role = "system"
    /\ Len(conversation_history) > 1

\* the command l is a configuration command the validation rules reject: a
\* model outside the allow-list, a temperature that is no number or lies
\* outside [0, 2], a token count that is no integer or is not positive, or
\* no argument at all (which for /prompt is the empty text)
Rejected(l) ==
    \/ /\ l.op \in {"/model", "/temp", "/tokens", "/prompt", "/load"}
       /\ l.res = "missing_arg"
    \/ /\ l.op = "/model"
       /\ l.res # "missing_arg"
       /\ l.arg \notin available_models
    \/ /\ l.op = "/temp"
       /\ l.res # "missing_arg"
       /\ \/ l.arg.kind = "word"
          \/ l.arg.kind \in {"int", "dec"} /\ (float(l.arg) < 0 \/ float(l.arg) > 2 * 10)
    \/ /\ l.op = "/tokens"
       /\ l.res # "missing_arg"
       /\ (l.arg.kind # "int" \/ l.arg.val <= 0)

\* C11: a configuration command that is rejected (/model outside the
\* allow-list, /temp not numeric or outside [0, 2], /tokens not numeric or
\* not positive, /prompt without text, and /model, /temp, /tokens, /prompt,
\* /load without argument) leaves configuration, history and stats as they
\* were, and the loop goes on.
C11_RejectedCommandKeepsState ==
    [][ Rejected(last')
        => /\ settings' = settings
           /\ conversation_history' = conversation_history
           /\ stats' = stats
           /\ pc' = "input" ]_vars

C11_Witness ==
    /\ Did("/temp", "rejected")
    /\ last.arg = DecArg(21)
    /\ settings.temperature = 0
    /\ Len(conversation_history) = 3

\* the argument value is a number t with 0 <= t <= 2
TempAcceptable(value) ==
    /\ value.kind \in {"int", "dec"}
    /\ 0 <= float(value)
    /\ float(value) <= 2 * 10

\* C12: /temp with the argument t sets the temperature to t if and only if
\* t is a number with 0 <= t <= 2, both bounds included; otherwise the
\* temperature keeps its value. /temp changes nothing but the temperature.
C12_TempSetIffInRange ==
    [][ (last'.op = "/temp" /\ last'.res # "missing_arg")
        => /\ settings'.temperature =
                 IF TempAcceptable(last'.arg) THEN float(last'.arg)
                 ELSE settings.temperature
           /\ settings' = [settings EXCEPT !.temperature = settings'.temperature]
           /\ conversation_history' = conversation_history
           /\ stats' = stats ]_vars

C12_Witness ==
    /\ Did("/temp", "ok")
    /\ last.arg = IntArg(2)
    /\ settings.temperature = 2 * 10
    /\ settings.max_tokens = 500

C14_TokensWithinHelpRange ==
    [][ (last'.op = "/tokens" /\ settings'.max_tokens # settings.max_tokens)
        => settings'.max_tokens <= HelpMaxTokens ]_vars

\* C15: /model X changes nothing when X is the active model, in every
\* reachable state (also when the active model came from a merged /load);
\* otherwise the model becomes X if X is in the allow-list and stays as it
\* was if not. /model changes neither max_tokens, temperature,
\* system_prompt, the history nor the stats.
C15_ModelSwitch ==
    [][ (last'.op = "/model" /\ last'.res # "missing_arg")
        => /\ last'.arg = settings.model => settings' = settings
           /\ settings'.model =
                 IF last'.arg \in available_models THEN last'.arg
                 ELSE settings.model
           /\ settings' = [settings EXCEPT !.model = settings'.model]
           /\ conversation_history' = conversation_history
           /\ stats' = stats ]_vars

\* /model llama while llama, outside the allow-list, is the active model
C15_Witness ==
    /\ last.op = "/model"
    /\ last.res # "missing_arg"
    /\ last.arg = "llama"
    /\ settings.model = "llama"

\* C16: right after /prompt with a text of more than 1000 characters the
\* stored system_prompt is the first 1000 characters of the text and
\* history[0].content is that same value; a text of at most 1000 characters
\* is stored as it is.
C16_PromptTruncated ==
    (last.op = "/prompt" /\ last.res # "missing_arg")
    => LET text == last.arg
           kept == IF text.len > PromptLimit THEN Str(text.txt, PromptLimit)
                   ELSE text
       IN  /\ settings.system_prompt = kept
           /\ conversation_history[1].content = kept

C16_Witness ==
    /\ last.op = "/prompt"
    /\ last.arg = Str("long", 1500)
    /\ settings.system_prompt = Str("long", PromptLimit)
    /\ Len(conversation_history) = 3

\* the file has what load_conversation reads: complete settings and a
\* conversation that is a list
Loadable(file) ==
    /\ file.kind = "json"
    /\ {"settings", "conversation"} \subseteq DOMAIN file.data
    /\ {"model", "max_tokens", "temperature"} \subseteq DOMAIN file.data["settings"]
    /\ IsArray(file.data["conversation"])

\* C17: /load never changes the stats, and a file that has settings and a
\* conversation loads whether or not it carries stats or a timestamp: the
\* settings question is reached, and once it is answered the load has
\* succeeded.
C17_LoadKeepsStats ==
    [][ (last'.op = "/load" /\ last'.res # "missing_arg")
        => /\ stats' = stats
           /\ Loadable(open(last'.arg.filename))
                 => /\ last'.arg.confirm # "not asked"
                    /\ last'.arg.confirm \in {"yes", ""}
                          => last'.res \in {"merged", "kept"} ]_vars

\* a load of a saved file whose stats block differs from the session's
C17_Witness ==
    /\ last.op = "/load"
    /\ last.res \in {"merged", "kept"}
    /\ last.arg.filename \in SaveNames
    /\ stats.total_messages = 1
    /\ files[last.arg.filename].data["stats"].total_messages = 0

\* C18: a line goes to the generation call, with nothing changed but the
\* user message that chat() appends, exactly when its first token does not
\* begin with '/'. A line whose first token begins with '/' is consumed as
\* a command: the loop is back at its input or the process has exited, no
\* exchange has begun; a command that does not exist changes nothing.
\* Command names are matched without regard to case: /CLEAR clears the
\* history as /clear does, /Quit ends the process as /quit does.
C18_Dispatch ==
    [][ (steps' = steps + 1 /\ token' # <<>>)
        => /\ (token'[1] # "/") <=> (pc' = "generating")
           /\ token'[1] # "/"
                 => /\ conversation_history' =
                          Append(conversation_history, Message("user", last'.arg))
                    /\ UNCHANGED <<settings, stats, files>>
           /\ token'[1] = "/"
                 => /\ pc' \in {"input", "exited"}
                    /\ last'.op # "chat"
                    /\ exchanges' = exchanges
           /\ token' = <<"/", "b", "o", "g", "u", "s">>
                 => /\ UNCHANGED <<settings, conversation_history, stats, files>>
                    /\ pc' = "input"
           /\ token' \in { <<"/", "c", "l", "e", "a", "r">>,
                            <<"/", "C", "L", "E", "A", "R">> }
                 => /\ conversation_history' =
                          << Message("developer", OrEmpty(settings.system_prompt)) >>
                    /\ UNCHANGED <<settings, stats, files>>
                    /\ pc' = "input"
           /\ token' \in { <<"/", "q", "u", "i", "t">>,
                            <<"/", "Q", "u", "i", "t">> }
                 => pc' = "exited" ]_vars

C18_Witness ==
    /\ token = <<"/", "C", "L", "E", "A", "R">>
    /\ Did("/clear", "ok")
    /\ last.arg = 3
    /\ Len(conversation_history) = 1

\* C19: a /load met by a conversation with at least one message beyond the
\* first entry replaces that conversation only after the operator has
\* answered yes: when the operator answers the load with the Enter key
\* alone, the history and the configuration are as they were before the
\* command.
C19_LoadAsksBeforeOverwrite ==
    [][ ( /\ LoadAnswered(last', "")
          /\ Len(conversation_history) > 1 )
        => /\ conversation_history' = conversation_history
           /\ settings' = settings ]_vars

\* the ways a command, a /save, a /load or a generation call fails
Failures ==
    LoadFailures \cup SaveFailures \cup
       {"error", "rejected", "invalid", "missing_arg", "eof"}

\* C20: the process ends only on /quit, on /exit or on an interrupt by the
\* operator, and then with exit code 0; no failing command, /save, /load or
\* generation call ends the loop; and /quit and /exit always end the
\* process, the loop's error handling does not take them.
C20_ExitsOnlyOnRequest ==
    [][ /\ (pc # "exited" /\ pc' = "exited")
              => /\ exit_code' = 0
                 /\ \/ last'.op \in {"/quit", "/exit"}
                    \/ last'.res = "interrupted"
        /\ (last'.res \in Failures \/ last'.op = "/unknown") => pc' # "exited"
        /\ ( /\ steps' = steps + 1
             /\ token' \in { <<"/", "q", "u", "i", "t">>,
                              <<"/", "e", "x", "i", "t">> } )
              => pc' = "exited" /\ exit_code' = 0 ]_vars

C20_Witness ==
    /\ pc = "exited"
    /\ exit_code = 0
    /\ Did("/exit", "ok")
    /\ stats.total_messages = 1

\* history h is a prefix of history g but for the content of the first entry
PrefixButHead(h, g) ==
    /\ Len(h) <= Len(g)
    /\ g[1].role = h[1].role
    /\ \A i \in 2..Len(h) : g[i] = h[i]

\* C21: every operation other than /clear and /load leaves the history it
\* found as a prefix of the history it leaves, /prompt changing the content
\* of the first entry and nothing else, so that the user messages stand in
\* the order they were entered; and the generation call is made with the
\* whole history of that moment: the history found, first entry first, and
\* the user message just entered as last entry.
C21_AppendOnly ==
    [][ /\ last'.op \notin {"/clear", "/load"}
              => /\ PrefixButHead(conversation_history, conversation_history')
                 /\ last'.op # "/prompt"
                       => conversation_history'[1] = conversation_history[1]
        /\ (pc = "input" /\ pc' = "generating")
              => request'.input =
                    Append(conversation_history, Message("user", last'.arg)) ]_vars

\* the call is made after an exchange that failed and one that succeeded
C21_Witness ==
    /\ pc = "generating"
    /\ Len(request.input) = 5
    /\ request.input[2].role = "user"
    /\ request.input[3].role = "user"
    /\ request.input[4].role = "assistant"

\* C22 as stated: an interrupt ends the loop only while it is blocked
\* reading input; a generation call in flight is not cut short: it ends by
\* its reply or by its own error, with the loop back at its input.
C22_GenerationRunsToCompletion ==
    [][ /\ (pc' = "exited" /\ last'.res = "interrupted") => pc = "input"
        /\ pc = "generating"
              => pc' = "input" /\ last'.res \in {"ok", "error"} ]_vars

\* C22 as amended: an interrupt ends the loop, with exit code 0, wherever it
\* arrives: while the loop is blocked reading input and also while a
\* generation call is in flight. The call is then abandoned: no reply is
\* appended, the history keeps the user message just entered as its last
\* entry, and stats and configuration are as they were.
C22_InterruptEndsLoop ==
    [][ last'.res = "interrupted"
        => /\ pc' = "exited"
           /\ exit_code' = 0
           /\ UNCHANGED <<settings, stats, files>>
           /\ last'.op = "chat"
                 => /\ pc = "generating"
                    /\ conversation_history' = conversation_history
                    /\ conversation_history'[Len(conversation_history')] =
                          Message("user", pre.message) ]_vars

C22_Witness ==
    /\ Did("chat", "interrupted")
    /\ pc = "exited"
    /\ stats.total_messages = 1
    /\ conversation_history[Len(conversation_history)].role = "user"

\* the roles of history[1:]
Roles == [i \in 1..(Len(conversation_history) - 1) |-> conversation_history[i + 1].role]

\* the history was built by this session, not by a /load: /load alone puts
\* an entry of role system first
OwnHistory == conversation_history[1].role = "developer"

\* C23 as stated: while the history is the session's own, history[1:]
\* alternates user, assistant, user, assistant, ... from a user message on,
\* and ends with a user message only while a generation call is in flight.
C23_StrictAlternation ==
    OwnHistory
    => /\ \A i \in DOMAIN Roles :
             Roles[i] = IF i % 2 = 1 THEN "user" ELSE "assistant"
       /\ (Len(Roles) % 2 = 1) => pc = "generating"

\* C23 as amended: while the history is the session's own, history[1:]
\* holds user and assistant messages only, begins with a user message, and
\* every assistant message stands right after a user message; while a
\* generation call is in flight the last entry is a user message. User
\* messages may be adjacent, and a user message may stay last with no call
\* in flight: an exchange that fails keeps its user message without reply.
C23_AssistantFollowsUser ==
    OwnHistory
    => /\ \A i \in DOMAIN Roles : Roles[i] \in {"user", "assistant"}
       /\ \A i \in DOMAIN Roles :
             Roles[i] = "assistant" => i > 1 /\ Roles[i - 1] = "user"
       /\ pc = "generating" => Len(Roles) >= 1 /\ Roles[Len(Roles)] = "user"

\* a call in flight whose input holds two user messages in a row
C23_Witness ==
    /\ OwnHistory
    /\ pc = "generating"
    /\ Len(Roles) = 4
    /\ Roles[3] = "user"
    /\ Roles[4] = "user"
    /\ Roles[2] = "assistant"

\* C24: /help, /stats, /settings, /models and /save, with or without a file
\* name and whether the write succeeds or fails, leave configuration,
\* history and stats as they were; and the conversation that a successful
\* /save stores is history[1:], without the entry at index 0.
C24_ReadOnlyCommands ==
    [][ last'.op \in {"/help", "/stats", "/settings", "/models", "/save"}
        => /\ settings' = settings
           /\ conversation_history' = conversation_history
           /\ stats' = stats
           /\ (last'.op = "/save" /\ last'.res = "ok")
                 => LET file == files'[last'.arg.filename] IN
                    /\ file.kind = "json"
                    /\ file.data["conversation"] =
                          JsonArray(Rest(conversation_history)) ]_vars

\* /save with a file name, of a history with messages and a system entry
C24_Witness ==
    /\ Did("/save", "ok")
    /\ last.arg.args # ""
    /\ conversation_history[1].role = "system"
    /\ Len(files[last.arg.filename].data["conversation"].array) =
          Len(conversation_history) - 1
    /\ Len(conversation_history) = 3

\* C25: when the read of the operator's line fails with an end-of-input
\* error, the loop ends, or at least does not come back to the read with
\* the program in the very state in which the read has just failed (from
\* where the same failure would repeat without end).
C25_EndOfInputEndsLoop ==
    [][ (last'.op = "input" /\ last'.res = "eof")
        => \/ pc' = "exited"
           \/ <<settings, conversation_history, stats, files, exit_code>>' #
                 <<settings, conversation_history, stats, files, exit_code>> ]_vars

====
